---- MODULE Spec2Model ----
(***************************************************************************)
(* Model of the scripts of onnela-lab/summaries:                           *)
(*   summaries/scripts/preprocess_coal.py   (CSV -> pickled sample splits) *)
(*   summaries/scripts/train_transformer.py (epoch loop, early stopping)   *)
(*   summaries/scripts/infer.py             (known through its tests)      *)
(* Strings are sequences of one-character strings, a pickled file is the   *)
(* value that was dumped, the file system is a function from paths to      *)
(* file contents.                                                          *)
(***************************************************************************)
EXTENDS Integers, Sequences, FiniteSets, TLC

VARIABLES
    \* ---- preprocess_coal.__main__ ----
    ppc,            \* position of the script
    perr,           \* exception that ended it ("none" while it runs)
    argv,           \* args.filenames
    csv,            \* the input CSV: [nrows, columns]
    data,           \* the shuffled data frame: sequence of input row numbers
    splits,         \* the dict of line 21, in insertion order
    total,          \* line 22
    data_columns,   \* lines 31-34; None until a candidate matches
    offset,         \* line 37
    k,              \* index of the next item of splits.items()
    fs,             \* files on disk: path -> unpickled content
    \* ---- train_transformer.__main__ ----
    tpc,            \* position of the script
    terr,           \* exception that ended it ("none" while it runs)
    targs,          \* args: config, train, validation, output
    config,         \* the TrainConfig instance of line 91
    clock,          \* wall clock read by datetime.now()
    start,          \* line 82
    transformer,    \* line 98: [initialized, epochs]
    scheduler,      \* line 106: [patience, threshold, steps]
    epoch,          \* line 112
    best_loss,      \* line 110
    n_bad_epochs,   \* line 111
    validation_loss,\* line 138
    validation_passes, \* number of passes over validation_loader (lines 131-136)
    last_improved,  \* history: the epoch at which lines 147-148 last ran
    \* ---- infer.__main__ ----
    ipc,            \* position of the script
    ierr,           \* exception that ended it ("none" while it runs)
    iargs,          \* args: config, simulated, observed, output
    samples         \* the posterior samples array

pvars == <<ppc, perr, argv, csv, data, splits, total, data_columns, offset, k>>
tvars == <<tpc, terr, targs, config, clock, start, transformer, scheduler, epoch,
           best_loss, n_bad_epochs, validation_loss, validation_passes,
           last_improved>>
ivars == <<ipc, ierr, iargs, samples>>
vars == <<pvars, fs, tvars, ivars>>

----------------------------------------------------------------------------
(* Bounds of the model *)
MaxRows == 3
MaxArgs == 2
MaxLoss == 2
MaxEpochs == 2
MaxParams == 2

\* Python's None where a list is expected
None == <<"None">>

----------------------------------------------------------------------------
(* Strings *)

Digits == <<"0", "1", "2", "3", "4", "5", "6", "7", "8", "9">>

RECURSIVE NatStr(_)
NatStr(n) == IF n < 10 THEN <<Digits[n + 1]>>
             ELSE NatStr(n \div 10) \o <<Digits[(n % 10) + 1]>>

\* str(n)
IntStr(n) == IF n < 0 THEN <<"-">> \o NatStr(-n) ELSE NatStr(n)

IsDigit(c) == \E i \in 1..10 : Digits[i] = c
DigitVal(c) == (CHOOSE i \in 1..10 : Digits[i] = c) - 1

RECURSIVE NatVal(_)
NatVal(s) == IF s = <<>> THEN 0
             ELSE 10 * NatVal(SubSeq(s, 1, Len(s) - 1)) + DigitVal(s[Len(s)])

\* int(s) of line 21: an optional sign and at least one digit, ValueError otherwise
IntOk(s) ==
    LET body == IF s # <<>> /\ s[1] \in {"-", "+"} THEN Tail(s) ELSE s
    IN  body # <<>> /\ \A i \in 1..Len(body) : IsDigit(body[i])

IntOf(s) ==
    IF s[1] = "-" THEN 0 - NatVal(Tail(s))
    ELSE IF s[1] = "+" THEN NatVal(Tail(s))
    ELSE NatVal(s)

\* s.split(sep) for a one-character separator
RECURSIVE StrSplit(_, _)
StrSplit(s, sep) ==
    IF \A i \in 1..Len(s) : s[i] # sep THEN <<s>>
    ELSE LET i == CHOOSE j \in 1..Len(s) :
                      s[j] = sep /\ \A h \in 1..(j - 1) : s[h] # sep
         IN  <<SubSeq(s, 1, i - 1)>> \o StrSplit(SubSeq(s, i + 1, Len(s)), sep)

\* os.path.join(directory, filename) of line 50, for a relative filename
PathJoin(dir, name) == dir \o <<"/">> \o name

----------------------------------------------------------------------------
(* preprocess_coal: inputs *)

SplitNames == {<<"a">>, <<"b">>}
Separators == {"=", ":"}
SplitSizes == (0 - 1)..MaxRows
Directory == <<"d">>

\* one command-line argument <name><sep><size>
MkArg(name, sep, size) == name \o <<sep>> \o IntStr(size)

\* the arguments written with one separator
ArgSet(sep) == {MkArg(n, sep, z) : n \in SplitNames, z \in SplitSizes}

\* args.filenames: one to MaxArgs arguments, all written the same way
ArgvSet == UNION {[1..n -> ArgSet(sep)] : n \in 1..MaxArgs, sep \in Separators}

ThetaColumns == {"theta", "rho"}
NamedColumns == {"segsites", "unif", "meandiff", "R2", "nhap", "fhap", "shap"}
NumberedColumns == {"C1", "C2", "C3", "C4", "C5", "C6", "C7"}

\* lines 27-30
data_column_candidates ==
    << <<"segsites", "unif", "meandiff", "R2", "nhap", "fhap", "shap">>,
       <<"C1", "C2", "C3", "C4", "C5", "C6", "C7">> >>

ColumnChoices ==
    { ThetaColumns \cup NamedColumns,
      ThetaColumns \cup NumberedColumns,
      ThetaColumns \cup NamedColumns \cup NumberedColumns,
      ThetaColumns \cup (NamedColumns \ {"shap"}) \cup (NumberedColumns \ {"C7"}),
      NamedColumns }

Range(s) == {s[i] : i \in 1..Len(s)}

\* DataFrame.sample(frac=1.0): every order of the n rows
Shuffles(n) == {p \in [1..n -> 1..n] : Range(p) = 1..n}

----------------------------------------------------------------------------
(* preprocess_coal: helpers *)

Min(a, b) == IF a < b THEN a ELSE b
Max(a, b) == IF a > b THEN a ELSE b

\* the (filename, size) unpacking and int(size) of line 21 succeed on argument a
ArgOk(a) ==
    LET parts == StrSplit(a, "=")
    IN  Len(parts) = 2 /\ IntOk(parts[2])

\* d[key] = val on a dict kept as a sequence of items in insertion order
DictPut(d, key, val) ==
    IF \E i \in 1..Len(d) : d[i].filename = key
    THEN [i \in 1..Len(d) |->
             IF d[i].filename = key THEN [filename |-> key, size |-> val] ELSE d[i]]
    ELSE Append(d, [filename |-> key, size |-> val])

\* the dict comprehension of line 21 over args.filenames
RECURSIVE BuildSplits(_)
BuildSplits(as) ==
    IF as = <<>> THEN <<>>
    ELSE LET last == as[Len(as)]
             parts == StrSplit(last, "=")
         IN  DictPut(BuildSplits(SubSeq(as, 1, Len(as) - 1)), parts[1], IntOf(parts[2]))

\* sum(splits.values()) of line 22
RECURSIVE SumSizes(_)
SumSizes(d) == IF d = <<>> THEN 0 ELSE d[1].size + SumSizes(Tail(d))

\* lines 31-34: the last candidate all of whose columns are present
RECURSIVE PickColumns(_, _, _)
PickColumns(cands, columns, picked) ==
    IF cands = <<>> THEN picked
    ELSE PickColumns(Tail(cands), columns,
                     IF Range(cands[1]) \ columns = {} THEN cands[1] ELSE picked)

\* a bound of a Python slice over n items
SliceIndex(i, n) == IF i < 0 THEN Max(i + n, 0) ELSE Min(i, n)

\* Slice with the upper bound taken as inclusive (label-based .loc slicing)
Slice_Inclusive(s, a, b) ==
    LET lo == SliceIndex(a, Len(s))
        hi == Min(SliceIndex(b, Len(s)) + 1, Len(s))
    IN  IF lo < hi THEN SubSeq(s, lo + 1, hi) ELSE <<>>

\* data.iloc[a:b] of line 39, with Python's treatment of negative and
\* out-of-range bounds
Slice(s, a, b) ==
    LET lo == SliceIndex(a, Len(s))
        hi == SliceIndex(b, Len(s))
    IN  IF lo < hi THEN SubSeq(s, lo + 1, hi) ELSE <<>>

\* split[cols].values of lines 45-46: one entry per row of the split
Values(split, cols) == [i \in 1..Len(split) |-> [row |-> split[i], cols |-> cols]]

\* the dict dumped by lines 41-51
SplitResult(filename, split, cols) ==
    [ args     |-> [directory |-> Directory, filenames |-> argv],
      filename |-> filename,
      samples  |-> [theta |-> Values(split, <<"theta", "rho">>),
                    x     |-> Values(split, cols)] ]

\* fp written at path
WriteFile(files, path, content) ==
    [p \in DOMAIN files \cup {path} |-> IF p = path THEN content ELSE files[p]]

----------------------------------------------------------------------------
(* preprocess_coal.__main__ *)

InitPreprocess ==
    /\ ppc = "read"
    /\ perr = "none"
    /\ argv \in ArgvSet
    /\ csv \in [nrows : 0..MaxRows, columns : ColumnChoices]
    /\ data = <<>>
    /\ splits = <<>>
    /\ total = 0
    /\ data_columns = None
    /\ offset = 0
    /\ k = 1
    /\ fs = <<>>

PreFail(exc) ==
    /\ ppc' = "failed"
    /\ perr' = exc

\* line 18: read the CSV and shuffle its rows
ReadCsv ==
    /\ ppc = "read"
    /\ \E p \in Shuffles(csv.nrows) : data' = p
    /\ ppc' = "splits"
    /\ UNCHANGED <<perr, argv, csv, splits, total, data_columns, offset, k, fs,
                   tvars, ivars>>

\* lines 21-22
ParseSplits ==
    /\ ppc = "splits"
    /\ IF \A i \in 1..Len(argv) : ArgOk(argv[i])
       THEN /\ splits' = BuildSplits(argv)
            /\ total' = SumSizes(BuildSplits(argv))
            /\ ppc' = "check_total"
            /\ UNCHANGED perr
       ELSE /\ PreFail("ValueError")
            /\ UNCHANGED <<splits, total>>
    /\ UNCHANGED <<argv, csv, data, data_columns, offset, k, fs, tvars, ivars>>

\* CheckTotal with the assertion stripped (python -O)
CheckTotal_Skipped ==
    /\ ppc = "check_total"
    /\ ppc' = "columns"
    /\ UNCHANGED <<perr, argv, csv, data, splits, total, data_columns, offset,
                   k, fs, tvars, ivars>>

\* line 23
CheckTotal ==
    /\ ppc = "check_total"
    /\ IF total = Len(data)
       THEN ppc' = "columns" /\ UNCHANGED perr
       ELSE PreFail("AssertionError")
    /\ UNCHANGED <<argv, csv, data, splits, total, data_columns, offset, k, fs,
                   tvars, ivars>>

\* lines 27-34
SelectColumns ==
    /\ ppc = "columns"
    /\ data_columns' = PickColumns(data_column_candidates, csv.columns, None)
    /\ ppc' = "check_columns"
    /\ UNCHANGED <<perr, argv, csv, data, splits, total, offset, k, fs, tvars,
                   ivars>>

\* line 35, then line 37; len(None) raises TypeError
CheckColumns ==
    /\ ppc = "check_columns"
    /\ IF data_columns = None
       THEN PreFail("TypeError") /\ UNCHANGED offset
       ELSE IF Len(data_columns) # 7
       THEN PreFail("AssertionError") /\ UNCHANGED offset
       ELSE ppc' = "loop" /\ offset' = 0 /\ UNCHANGED perr
    /\ UNCHANGED <<argv, csv, data, splits, total, data_columns, k, fs, tvars,
                   ivars>>

\* lines 38-51: one iteration of the loop over splits.items()
WriteSplit ==
    /\ ppc = "loop"
    /\ k <= Len(splits)
    /\ LET filename == splits[k].filename
           size     == splits[k].size
           split    == Slice(data, offset, offset + size)
       IN  /\ offset' = offset + size
           /\ IF ThetaColumns \ csv.columns # {}
              THEN PreFail("KeyError") /\ UNCHANGED <<k, fs>>
              ELSE /\ fs' = WriteFile(fs, PathJoin(Directory, filename),
                                      SplitResult(filename, split, data_columns))
                   /\ k' = k + 1
                   /\ ppc' = IF k = Len(splits) THEN "done" ELSE "loop"
                   /\ UNCHANGED perr
    /\ UNCHANGED <<argv, csv, data, splits, total, data_columns, tvars, ivars>>

NextPreprocess ==
    \/ ReadCsv
    \/ ParseSplits
    \/ CheckTotal
    \/ SelectColumns
    \/ CheckColumns
    \/ WriteSplit

----------------------------------------------------------------------------
(* train_transformer: values *)

\* ReduceLROnPlateau(optim, verbose=True) of line 106 keeps the library's
\* defaults patience=10 and threshold=1e-4; losses are counted in units of
\* the threshold
Patience == 10
Threshold == 1

\* a float: a finite number of threshold units, +inf or NaN
Num(v) == [kind |-> "num", v |-> v]
Inf == [kind |-> "inf", v |-> 0]
NaN == [kind |-> "nan", v |-> 0]

\* the values np.dot(sizes, loss_values) / np.sum(sizes) of line 138 may take
Losses == {Num(v) : v \in 0..MaxLoss} \cup {Inf, NaN}

\* x + threshold in floating point
AddThreshold(x, thr) == IF x.kind = "num" THEN Num(x.v + thr) ELSE x

\* x < y in floating point: False whenever either side is NaN
FloatLess(x, y) ==
    /\ x.kind = "num"
    /\ \/ y.kind = "inf"
       \/ y.kind = "num" /\ x.v < y.v

\* validation_loss + scheduler.threshold < best_loss of line 146
Improved(loss, thr, best) == FloatLess(AddThreshold(loss, thr), best)

\* MAX_EPOCHS is None (<<>>) or an int (<<n>>)
NoLimit == <<>>
Limit(n) == <<n>>

\* ReachedMaxEpochs that stops one epoch late
ReachedMaxEpochs_Late(max_epochs, e) ==
    /\ max_epochs # NoLimit
    /\ max_epochs[1] # 0
    /\ e = max_epochs[1] + 1

\* config.MAX_EPOCHS and epoch == config.MAX_EPOCHS of line 142
ReachedMaxEpochs(max_epochs, e) ==
    /\ max_epochs # NoLimit
    /\ max_epochs[1] # 0
    /\ e = max_epochs[1]

\* lines 53-72, and configurations that subclass CoalescentTrainConfig with an
\* epoch limit (MAX_EPOCHS of line 32 overridden): limits below, and one limit
\* above, the epoch at which early stopping can first happen
ConfigClasses ==
    { [name |-> <<"CoalescentMixtureDensityConfig">>, LOSS |-> "NegLogProbLoss",
       MAX_EPOCHS |-> NoLimit],
      [name |-> <<"CoalescentPosteriorMeanConfig">>, LOSS |-> "MSELoss",
       MAX_EPOCHS |-> NoLimit] }
    \cup { [name |-> <<"LimitedConfig", n>>, LOSS |-> "MSELoss", MAX_EPOCHS |-> Limit(n)] :
              n \in 0..MaxEpochs \cup {2 * Patience + 1} }

\* lines 74-78: the registry, from class name to class
TRAIN_CONFIGS ==
    [nm \in {c.name : c \in ConfigClasses} |->
        CHOOSE c \in ConfigClasses : c.name = nm]

NoConfig == [name |-> <<>>, LOSS |-> "None", MAX_EPOCHS |-> NoLimit]
NoArgs == [config |-> <<>>, train |-> <<>>, validation |-> <<>>, output |-> <<>>]

OutputPath == <<"o", "u", "t">>
ResultPath == <<"r", "e", "s">>

\* a numpy array or tensor, known by its shape
Array(shape) == [shape |-> shape]

\* sample files written by other means than preprocess_coal, with the keys
\* the tests dump (tests/scripts/test_infer.py lines 46-55)
ExternalFiles ==
    (<<"s">> :> [data |-> Array(<<2, 7>>), params |-> Array(<<2, 2>>)])
    @@ (<<"o">> :> [data |-> Array(<<1, 7>>)])

\* result[key] of lines 47-48 raises KeyError on a missing key
LoadError(file) ==
    IF "data" \notin DOMAIN file \/ "params" \notin DOMAIN file
    THEN "KeyError" ELSE "none"

\* the dict dumped by lines 164-169
Artifact(a, s, e, t) == [args |-> a, start |-> s, end |-> e, transformer |-> t]

----------------------------------------------------------------------------
(* train_transformer.__main__ *)

InitTrain(pc0) ==
    /\ tpc = pc0
    /\ terr = "none"
    /\ targs = NoArgs
    /\ config = NoConfig
    /\ clock = 0
    /\ start = 0
    /\ transformer = [initialized |-> FALSE, epochs |-> 0]
    /\ scheduler = [patience |-> Patience, threshold |-> Threshold, steps |-> 0]
    /\ epoch = 0
    /\ best_loss = Inf
    /\ n_bad_epochs = 0
    /\ validation_loss = Inf
    /\ validation_passes = 0
    /\ last_improved = 0

\* no preprocess_coal run: the sample files come from elsewhere
InitNoPreprocess ==
    /\ ppc = "off"
    /\ perr = "none"
    /\ argv = <<>>
    /\ csv = [nrows |-> 0, columns |-> {}]
    /\ data = <<>>
    /\ splits = <<>>
    /\ total = 0
    /\ data_columns = None
    /\ offset = 0
    /\ k = 1
    /\ fs = ExternalFiles

TrainFail(exc) ==
    /\ tpc' = "failed"
    /\ terr' = exc

Tick == clock' = clock + 1

\* lines 82-89: the script is started on files that exist, after
\* preprocess_coal (if it ran) has finished
StartTrain ==
    /\ tpc = "idle"
    /\ ppc \in {"off", "done"}
    /\ start' = clock
    /\ \E c \in DOMAIN TRAIN_CONFIGS, tr \in DOMAIN fs, va \in DOMAIN fs :
          targs' = [config |-> c, train |-> tr, validation |-> va,
                    output |-> OutputPath]
    /\ tpc' = "config"
    /\ Tick
    /\ UNCHANGED <<pvars, ivars, validation_passes, fs, terr, config,
                   transformer, scheduler, epoch, best_loss, n_bad_epochs,
                   validation_loss, last_improved>>

\* line 91, with the assertion of line 37
CreateConfig ==
    /\ tpc = "config"
    /\ LET c == TRAIN_CONFIGS[targs.config]
       IN  IF c.LOSS = "None"
           THEN TrainFail("AssertionError") /\ UNCHANGED config
           ELSE config' = c /\ tpc' = "load_train" /\ UNCHANGED terr
    /\ Tick
    /\ UNCHANGED <<pvars, ivars, validation_passes, fs, targs, start,
                   transformer, scheduler, epoch, best_loss, n_bad_epochs,
                   validation_loss, last_improved>>

\* line 94
LoadTrain ==
    /\ tpc = "load_train"
    /\ IF LoadError(fs[targs.train]) # "none"
       THEN TrainFail(LoadError(fs[targs.train]))
       ELSE tpc' = "load_validation" /\ UNCHANGED terr
    /\ Tick
    /\ UNCHANGED <<pvars, ivars, validation_passes, fs, targs, config, start,
                   transformer, scheduler, epoch, best_loss, n_bad_epochs,
                   validation_loss, last_improved>>

\* line 95
LoadValidation ==
    /\ tpc = "load_validation"
    /\ IF LoadError(fs[targs.validation]) # "none"
       THEN TrainFail(LoadError(fs[targs.validation]))
       ELSE tpc' = "pilot" /\ UNCHANGED terr
    /\ Tick
    /\ UNCHANGED <<pvars, ivars, validation_passes, fs, targs, config, start,
                   transformer, scheduler, epoch, best_loss, n_bad_epochs,
                   validation_loss, last_improved>>

\* lines 98-111: pilot batch, optimizer, scheduler, best_loss and n_bad_epochs
SetupTraining ==
    /\ tpc = "pilot"
    /\ transformer' = [initialized |-> TRUE, epochs |-> 0]
    /\ scheduler' = [patience |-> Patience, threshold |-> Threshold, steps |-> 0]
    /\ best_loss' = Inf
    /\ n_bad_epochs' = 0
    /\ tpc' = "train_pass"
    /\ Tick
    /\ UNCHANGED <<pvars, ivars, validation_passes, fs, terr, targs, config,
                   start, epoch, validation_loss, last_improved>>

\* lines 112-126: the next value of it.count(1) and one pass over train_loader
TrainPass ==
    /\ tpc = "train_pass"
    /\ epoch' = epoch + 1
    /\ transformer' = [transformer EXCEPT !.epochs = @ + 1]
    /\ tpc' = "validation_pass"
    /\ Tick
    /\ UNCHANGED <<pvars, ivars, validation_passes, fs, terr, targs, config,
                   start, scheduler, best_loss, n_bad_epochs, validation_loss,
                   last_improved>>

\* lines 129-138
ValidationPass ==
    /\ tpc = "validation_pass"
    /\ \E loss \in Losses : validation_loss' = loss
    /\ validation_passes' = validation_passes + 1
    /\ tpc' = "scheduler_step"
    /\ Tick
    /\ UNCHANGED <<pvars, ivars, fs, terr, targs, config, start, transformer,
                   scheduler, epoch, best_loss, n_bad_epochs, last_improved>>

\* line 139
SchedulerStep ==
    /\ tpc = "scheduler_step"
    /\ scheduler' = [scheduler EXCEPT !.steps = @ + 1]
    /\ tpc' = "check_max"
    /\ Tick
    /\ UNCHANGED <<pvars, ivars, validation_passes, fs, terr, targs, config,
                   start, transformer, epoch, best_loss, n_bad_epochs,
                   validation_loss, last_improved>>

\* lines 142-143
CheckMaxEpochs ==
    /\ tpc = "check_max"
    /\ tpc' = IF ReachedMaxEpochs(config.MAX_EPOCHS, epoch) THEN "dump" ELSE "update"
    /\ Tick
    /\ UNCHANGED <<pvars, ivars, validation_passes, fs, terr, targs, config,
                   start, transformer, scheduler, epoch, best_loss,
                   n_bad_epochs, validation_loss, last_improved>>

\* UpdateBest that forgets to reset n_bad_epochs on an improvement
UpdateBest_NoReset ==
    /\ tpc = "update"
    /\ IF Improved(validation_loss, scheduler.threshold, best_loss)
       THEN /\ best_loss' = validation_loss
            /\ last_improved' = epoch
            /\ UNCHANGED n_bad_epochs
       ELSE /\ n_bad_epochs' = n_bad_epochs + 1
            /\ UNCHANGED <<best_loss, last_improved>>
    /\ tpc' = "check_stop"
    /\ Tick
    /\ UNCHANGED <<pvars, ivars, validation_passes, fs, terr, targs, config,
                   start, transformer, scheduler, epoch, validation_loss>>

\* lines 146-150
UpdateBest ==
    /\ tpc = "update"
    /\ IF Improved(validation_loss, scheduler.threshold, best_loss)
       THEN /\ best_loss' = validation_loss
            /\ n_bad_epochs' = 0
            /\ last_improved' = epoch
       ELSE /\ n_bad_epochs' = n_bad_epochs + 1
            /\ UNCHANGED <<best_loss, last_improved>>
    /\ tpc' = "check_stop"
    /\ Tick
    /\ UNCHANGED <<pvars, ivars, validation_passes, fs, terr, targs, config,
                   start, transformer, scheduler, epoch, validation_loss>>

\* CheckStop that also saves the model at the end of every epoch
CheckStop_Dumping ==
    /\ tpc = "check_stop"
    /\ tpc' = IF n_bad_epochs = 2 * scheduler.patience THEN "dump" ELSE "train_pass"
    /\ fs' = WriteFile(fs, targs.output, Artifact(targs, start, clock, transformer))
    /\ Tick
    /\ UNCHANGED <<pvars, ivars, validation_passes, terr, targs, config, start,
                   transformer, scheduler, epoch, best_loss, n_bad_epochs,
                   validation_loss, last_improved>>

\* CheckStop that stops after scheduler.patience bad epochs
CheckStop_Patience ==
    /\ tpc = "check_stop"
    /\ tpc' = IF n_bad_epochs = scheduler.patience THEN "dump" ELSE "train_pass"
    /\ Tick
    /\ UNCHANGED <<pvars, ivars, validation_passes, fs, terr, targs, config,
                   start, transformer, scheduler, epoch, best_loss,
                   n_bad_epochs, validation_loss, last_improved>>

\* lines 152-161
CheckStop ==
    /\ tpc = "check_stop"
    /\ tpc' = IF n_bad_epochs = 2 * scheduler.patience THEN "dump" ELSE "train_pass"
    /\ Tick
    /\ UNCHANGED <<pvars, ivars, validation_passes, fs, terr, targs, config,
                   start, transformer, scheduler, epoch, best_loss,
                   n_bad_epochs, validation_loss, last_improved>>

\* lines 163-169
Dump ==
    /\ tpc = "dump"
    /\ fs' = WriteFile(fs, targs.output, Artifact(targs, start, clock, transformer))
    /\ tpc' = "done"
    /\ Tick
    /\ UNCHANGED <<pvars, ivars, validation_passes, terr, targs, config, start,
                   transformer, scheduler, epoch, best_loss, n_bad_epochs,
                   validation_loss, last_improved>>

NextTrain ==
    \/ StartTrain
    \/ CreateConfig
    \/ LoadTrain
    \/ LoadValidation
    \/ SetupTraining
    \/ TrainPass
    \/ ValidationPass
    \/ SchedulerStep
    \/ CheckMaxEpochs
    \/ UpdateBest
    \/ CheckStop
    \/ Dump

----------------------------------------------------------------------------
(* infer.__main__, as far as tests/scripts/test_infer.py shows it *)

\* InferenceConfig.frac as a fraction
Frac(num, den) == [num |-> num, den |-> den]

\* the configuration of test_infer (frac 0.01) and the coal configurations as
\* test_infer_coal patches them (frac 0.1)
INFERENCE_CONFIGS ==
    { [name |-> "test", frac |-> Frac(1, 100)],
      [name |-> "coal", frac |-> Frac(1, 10)] }

\* NumDraws rounding up
NumDraws_Ceil(frac, n) == (frac.num * n + frac.den - 1) \div frac.den

\* the number of simulated samples a fraction retains
NumDraws(frac, n) == (frac.num * n) \div frac.den

\* what the script reads from its two input files
InferLoadError(simulated, observed) ==
    IF "data" \notin DOMAIN simulated \/ "params" \notin DOMAIN simulated
       \/ "data" \notin DOMAIN observed
    THEN "KeyError" ELSE "none"

\* the samples drawn for every observation
PosteriorSamples(frac, simulated, observed) ==
    Array(<< observed.data.shape[1],
             NumDraws(frac, simulated.data.shape[1]),
             simulated.params.shape[2] >>)

InferResult(s) == [samples |-> s]

NoInferArgs == [config |-> "None", simulated |-> <<>>, observed |-> <<>>, output |-> <<>>]

InitInferOff ==
    /\ ipc = "off"
    /\ ierr = "none"
    /\ iargs = NoInferArgs
    /\ samples = Array(<<>>)

SimulatedSizes == 0..MaxRows \cup {98, 100000}
ObservedSizes == 0..MaxRows \cup {7}

\* the script is started on a simulated and an observed sample file
InitInfer ==
    /\ ppc = "off" /\ perr = "none" /\ argv = <<>>
    /\ csv = [nrows |-> 0, columns |-> {}]
    /\ data = <<>> /\ splits = <<>> /\ total = 0 /\ data_columns = None
    /\ offset = 0 /\ k = 1
    /\ \E n \in SimulatedSizes, m \in ObservedSizes, p \in 1..MaxParams :
          fs = (<<"s">> :> [data |-> Array(<<n, 7>>), params |-> Array(<<n, p>>)])
               @@ (<<"o">> :> [data |-> Array(<<m, 7>>)])
    /\ ipc = "load"
    /\ ierr = "none"
    /\ \E c \in INFERENCE_CONFIGS, si \in {<<"s">>, <<"o">>}, ob \in {<<"s">>, <<"o">>} :
          iargs = [config |-> c.name, simulated |-> si, observed |-> ob,
                   output |-> ResultPath]
    /\ samples = Array(<<>>)

InferLoad ==
    /\ ipc = "load"
    /\ IF InferLoadError(fs[iargs.simulated], fs[iargs.observed]) # "none"
       THEN /\ ipc' = "failed"
            /\ ierr' = InferLoadError(fs[iargs.simulated], fs[iargs.observed])
       ELSE ipc' = "sample" /\ UNCHANGED ierr
    /\ UNCHANGED <<pvars, fs, tvars, iargs, samples>>

InferSample ==
    /\ ipc = "sample"
    /\ LET c == CHOOSE c \in INFERENCE_CONFIGS : c.name = iargs.config
       IN  samples' = PosteriorSamples(c.frac, fs[iargs.simulated], fs[iargs.observed])
    /\ ipc' = "dump"
    /\ UNCHANGED <<pvars, fs, tvars, ierr, iargs>>

InferDump ==
    /\ ipc = "dump"
    /\ fs' = WriteFile(fs, iargs.output, InferResult(samples))
    /\ ipc' = "done"
    /\ UNCHANGED <<pvars, tvars, ierr, iargs, samples>>

NextInfer ==
    \/ InferLoad
    \/ InferSample
    \/ InferDump

----------------------------------------------------------------------------
Init ==
    \/ InitPreprocess /\ InitTrain("idle") /\ InitInferOff
    \/ InitNoPreprocess /\ InitTrain("idle") /\ InitInferOff
    \/ InitInfer /\ InitTrain("off")

Next == NextPreprocess \/ NextTrain \/ NextInfer

Spec == Init /\ [][Next]_vars

\* preprocess_coal alone
InitPreprocessOnly == InitPreprocess /\ InitTrain("off") /\ InitInferOff

PreprocessSpec == InitPreprocessOnly /\ [][NextPreprocess]_vars

\* the training script alone, run to its end: a step that can be taken is taken
InitTrainOnly == InitNoPreprocess /\ InitTrain("idle") /\ InitInferOff

TrainSpec == InitTrainOnly /\ [][NextTrain]_vars

InitInferOnly == InitInfer /\ InitTrain("off")

InferSpec == InitInferOnly /\ [][NextInfer]_vars

LiveSpec == InitTrainOnly /\ [][NextTrain]_vars /\ WF_vars(NextTrain)

----------------------------------------------------------------------------
(* Properties of preprocess_coal *)

\* every argument has the form the parser of line 21 accepts, with separator sep
ArgsHaveForm(sep) ==
    \A i \in 1..Len(argv) :
        LET parts == StrSplit(argv[i], sep)
        IN  Len(parts) = 2 /\ IntOk(parts[2])

ArgName(a, sep) == StrSplit(a, sep)[1]
ArgSize(a, sep) == IntOf(StrSplit(a, sep)[2])

\* the sum of the sizes given in the arguments, every argument counted
RECURSIVE GivenSum(_, _)
GivenSum(as, sep) ==
    IF as = <<>> THEN 0 ELSE ArgSize(as[1], sep) + GivenSum(Tail(as), sep)

\* the same sum, a name given more than once counted once with its last size
RECURSIVE LastGivenSum(_, _)
LastGivenSum(as, sep) ==
    IF as = <<>> THEN 0
    ELSE (IF \E j \in 2..Len(as) : ArgName(as[j], sep) = ArgName(as[1], sep)
          THEN 0 ELSE ArgSize(as[1], sep))
         + LastGivenSum(Tail(as), sep)

DistinctNames(sep) ==
    \A i, j \in 1..Len(argv) :
        i # j => ArgName(argv[i], sep) # ArgName(argv[j], sep)

NonNegativeSizes(sep) == \A i \in 1..Len(argv) : ArgSize(argv[i], sep) >= 0

PastTotalCheck == ppc \in {"columns", "check_columns", "loop", "done", "failed"}
PreprocessEnded == ppc \in {"done", "failed"}

NoFileWritten == DOMAIN fs = {}

RejectedByAssertion == ppc = "failed" /\ perr = "AssertionError" /\ NoFileWritten

\* C1, as stated: whenever the sum of the sizes given in the filenames
\* arguments differs from the number of rows of the CSV, the run fails on the
\* sample-count assertion and no output file has been written.
C1_AsStated ==
    (ArgsHaveForm("=") /\ PastTotalCheck /\ GivenSum(argv, "=") # csv.nrows)
        => RejectedByAssertion

\* C1, amended: whenever the arguments are all of the form <name>=<size> and
\* the sum of their sizes, a name given more than once counted once with its
\* last size, differs from the number of rows of the CSV, the run fails on the
\* sample-count assertion and no output file has been written.
C1_SampleCountChecked ==
    (ArgsHaveForm("=") /\ PastTotalCheck /\ LastGivenSum(argv, "=") # csv.nrows)
        => RejectedByAssertion

C1_Witness ==
    /\ ppc = "failed" /\ perr = "AssertionError" /\ NoFileWritten
    /\ Len(argv) = 2
    /\ ArgsHaveForm("=")
    /\ LastGivenSum(argv, "=") # csv.nrows
    /\ Len(data) = csv.nrows /\ csv.nrows > 0

NeitherCandidateComplete ==
    \A i \in 1..Len(data_column_candidates) :
        Range(data_column_candidates[i]) \ csv.columns # {}

\* C2: whenever the CSV holds neither complete set of seven summary-statistic
\* columns, the run is rejected by an assertion failure and no output file is
\* written.
C2_MissingColumnsRejectedByAssertion ==
    (ArgsHaveForm("=") /\ NeitherCandidateComplete /\ PreprocessEnded)
        => RejectedByAssertion

\* C3: the files written by preprocess_coal are consumable by training: the
\* sequence preprocess -> train never fails on a missing key.
C3_TrainReadsPreprocessOutput ==
    (ppc = "done" /\ tpc = "failed") => terr # "KeyError"

PklPath(name) == PathJoin(Directory, name \o <<".", "p", "k", "l">>)

\* C6: arguments written <name>:<size> whose sizes sum to the number of rows
\* are accepted, and for each of them <directory>/<name>.pkl is written with
\* exactly <size> samples.
C6_ColonArgumentsAccepted ==
    ( /\ ArgsHaveForm(":")
      /\ DistinctNames(":")
      /\ NonNegativeSizes(":")
      /\ GivenSum(argv, ":") = csv.nrows
      /\ csv.columns = ThetaColumns \cup NamedColumns
      /\ PreprocessEnded )
    => /\ ppc = "done"
       /\ \A i \in 1..Len(argv) :
             /\ PklPath(ArgName(argv[i], ":")) \in DOMAIN fs
             /\ Len(fs[PklPath(ArgName(argv[i], ":"))].samples.x)
                    = ArgSize(argv[i], ":")

\* the file of the i-th argument
SplitFile(i) == fs[PathJoin(Directory, ArgName(argv[i], "="))]

\* the split given i-th holds the rows [offset_i, offset_i + size_i) of the
\* shuffled data, theta and x row by row from the same input row
HoldsItsRows(i) ==
    LET size == ArgSize(argv[i], "=")
        off  == GivenSum(SubSeq(argv, 1, i - 1), "=")
    IN  /\ PathJoin(Directory, ArgName(argv[i], "=")) \in DOMAIN fs
        /\ Len(SplitFile(i).samples.theta) = size
        /\ Len(SplitFile(i).samples.x) = size
        /\ \A j \in 1..size :
              /\ off + j \in 1..Len(data)
              /\ SplitFile(i).samples.theta[j].row = data[off + j]
              /\ SplitFile(i).samples.x[j].row = data[off + j]

\* the places (file, position) at which input row r was written
PlacesOf(r) ==
    {<<i, j>> \in (1..Len(argv)) \X (1..csv.nrows) :
        /\ j <= Len(SplitFile(i).samples.theta)
        /\ SplitFile(i).samples.theta[j].row = r}

FilesPartitionData ==
    /\ \A i \in 1..Len(argv) : HoldsItsRows(i)
    /\ \A r \in 1..csv.nrows : Cardinality(PlacesOf(r)) = 1

\* C7, as stated: after a successful run with pairwise distinct split names
\* the output files partition the shuffled input in contiguous chunks of the
\* stated sizes, in argument order.
C7_AsStated ==
    (ppc = "done" /\ DistinctNames("=")) => FilesPartitionData

\* C7, amended: after a successful run with pairwise distinct split names and
\* no negative size, the k-th split holds exactly the contiguous rows
\* [offset_k, offset_k + size_k) of the shuffled input, every input row lands
\* in exactly one file, and theta and x agree row by row.
C7_FilesPartitionData ==
    (ppc = "done" /\ DistinctNames("=") /\ NonNegativeSizes("="))
        => FilesPartitionData

C7_Witness ==
    /\ ppc = "done"
    /\ Len(argv) = 2
    /\ DistinctNames("=")
    /\ \A i \in 1..2 : ArgSize(argv[i], "=") > 0
    /\ data[1] # 1
    /\ FilesPartitionData

----------------------------------------------------------------------------
(* Properties of train_transformer *)

ArtifactWritten == OutputPath \in DOMAIN fs

InEpochLoop ==
    tpc \in {"train_pass", "validation_pass", "scheduler_step", "check_max",
             "update", "check_stop"}

StopPatience == 2 * Patience

\* C4: the trained model artifact is written exactly once, only after the
\* epoch loop has ended and never while it runs or after a failure; it holds
\* exactly the fields args, start, end and transformer, start being read before
\* any data is loaded and end after the last epoch, with start <= end.
C4_ArtifactWrittenOnceAtEnd ==
    /\ [](ArtifactWritten => tpc = "done")
    /\ [](tpc = "done" =>
            /\ ArtifactWritten
            /\ DOMAIN fs[OutputPath] = {"args", "start", "end", "transformer"}
            /\ fs[OutputPath].args = targs
            /\ fs[OutputPath].start = start
            /\ fs[OutputPath].start <= fs[OutputPath].end
            /\ fs[OutputPath].transformer.epochs = epoch)
    /\ [](tpc \in {"load_train", "load_validation"} => start < clock)
    /\ [][ArtifactWritten' /\ fs' # fs => tpc = "dump" /\ ~ArtifactWritten]_vars
    /\ [][tpc' = "done" =>
            /\ tpc = "dump"
            /\ fs'[OutputPath].end = clock
            /\ epoch' = epoch]_vars

C4_Witness ==
    /\ tpc = "done"
    /\ ArtifactWritten
    /\ fs[OutputPath].transformer.epochs > StopPatience
    /\ fs[OutputPath].start < fs[OutputPath].end

NoLimitInEffect ==
    config.MAX_EPOCHS = NoLimit \/ config.MAX_EPOCHS = Limit(0)

\* the improvement test of the claim: validation_loss + threshold < best_loss
\* holds for a finite loss against an infinite best loss or a finite one that
\* is more than the threshold above it, and for no other pair
ClaimedImprovement ==
    /\ validation_loss.kind = "num"
    /\ \/ best_loss.kind = "inf"
       \/ best_loss.kind = "num" /\ validation_loss.v + Threshold < best_loss.v

\* C8: with no epoch limit in effect, after every completed epoch n_bad_epochs
\* is the number of most recent consecutive epochs without an improvement
\* (reset to 0, best_loss lowered to the epoch's loss, exactly on an
\* improvement; otherwise one more, best_loss unchanged); n_bad_epochs stays
\* within 0..2*patience, best_loss never increases, and the loop exits by
\* early stopping exactly when n_bad_epochs equals 2*patience.
C8_EarlyStoppingBookkeeping ==
    /\ [](NoLimitInEffect => (0 <= n_bad_epochs /\ n_bad_epochs <= StopPatience))
    /\ [](NoLimitInEffect /\ tpc \in {"check_stop", "train_pass", "dump", "done"}
            => n_bad_epochs = epoch - last_improved)
    /\ [][NoLimitInEffect /\ tpc = "update" =>
            IF ClaimedImprovement
            THEN n_bad_epochs' = 0 /\ best_loss' = validation_loss
            ELSE n_bad_epochs' = n_bad_epochs + 1 /\ best_loss' = best_loss]_vars
    /\ [][best_loss' = best_loss \/ FloatLess(best_loss', best_loss)]_vars
    /\ [][NoLimitInEffect /\ InEpochLoop =>
            (tpc' = "dump" <=> (tpc = "check_stop" /\ n_bad_epochs = StopPatience))]_vars

C8_Witness ==
    /\ tpc = "dump"
    /\ config.MAX_EPOCHS = NoLimit
    /\ n_bad_epochs = StopPatience
    /\ last_improved > 1
    /\ epoch = last_improved + StopPatience
    /\ best_loss = Num(0)

HasLimit == config.MAX_EPOCHS # NoLimit /\ config.MAX_EPOCHS[1] >= 1
TheLimit == config.MAX_EPOCHS[1]

\* C9: with MAX_EPOCHS an integer N >= 1 the loop never runs more than N
\* epochs: unless early stopping ended it earlier it exits at epoch N, after
\* that epoch's training pass, validation pass and scheduler step, and the
\* artifact is then written; with MAX_EPOCHS None it ends only by early
\* stopping.
C9_EpochLimit ==
    /\ [](HasLimit => epoch <= TheLimit)
    /\ [][InEpochLoop /\ tpc' = "dump" =>
            \/ /\ tpc = "check_max"
               /\ HasLimit
               /\ epoch = TheLimit
               /\ transformer.epochs = TheLimit
               /\ validation_passes = TheLimit
               /\ scheduler.steps = TheLimit
            \/ /\ tpc = "check_stop"
               /\ n_bad_epochs = StopPatience
               /\ HasLimit => epoch < TheLimit]_vars
    /\ [][tpc = "check_max" /\ HasLimit /\ epoch = TheLimit => tpc' = "dump"]_vars
    /\ [][tpc = "dump" => tpc' = "done" /\ ArtifactWritten']_vars
    /\ []((~HasLimit /\ tpc \in {"dump", "done"}) => n_bad_epochs = StopPatience)

C9_Witness ==
    /\ tpc = "done"
    /\ ArtifactWritten
    /\ config.MAX_EPOCHS = Limit(StopPatience + 1)
    /\ epoch = StopPatience + 1
    /\ n_bad_epochs < StopPatience

\* C10: for the registered configurations (MAX_EPOCHS None) the training loop
\* terminates whatever the validation losses are, NaN included: it reaches
\* n_bad_epochs = 2*patience, exits, and the artifact is written.
C10_TrainingTerminates ==
    (tpc = "train_pass" /\ epoch = 0 /\ config.MAX_EPOCHS = NoLimit)
        ~> (tpc = "done" /\ n_bad_epochs = StopPatience /\ ArtifactWritten)

C10_Witness ==
    /\ tpc = "done"
    /\ config.name = <<"CoalescentMixtureDensityConfig">>
    /\ ArtifactWritten
    /\ best_loss = Inf
    /\ validation_loss = NaN
    /\ epoch = StopPatience

----------------------------------------------------------------------------
(* Properties of infer *)

====
